---- MODULE Spec2Model ----
(***************************************************************************)
(* Model of the YouTube transcript service: the FastAPI application of     *)
(* api.py (get_transcript, get_transcript_segments) and the single         *)
(* function request handler of worker-python.py (main).                    *)
(*                                                                         *)
(* Text is a sequence of one-character strings. The external transcript    *)
(* provider answers a call either by returning a list of segments or by    *)
(* raising; its answer to a given language list is chosen when the call is *)
(* first made and is the same for every later call with that list.         *)
(***************************************************************************)
EXTENDS Integers, Sequences, FiniteSets, TLC

VARIABLES
    video_id,         \* path parameter of the two api.py routes
    provider,         \* the provider's answer per language list, once asked
    a_pc,             \* get_transcript: position in the handler
    a_calls,          \* get_transcript: provider calls made so far
    transcript_data,  \* get_transcript: local variable
    language_used,    \* get_transcript: local variable
    a_out,            \* get_transcript: responses sent
    s_pc,             \* get_transcript_segments: position
    s_calls,          \* get_transcript_segments: provider calls made so far
    s_out,            \* get_transcript_segments: responses sent
    request,          \* main: the request object (method, url)
    w_pc,             \* main: position in the handler
    w_video_id,       \* main: local variable video_id
    transcript,       \* main: local variable
    w_calls,          \* main: provider calls made so far
    w_read_url,       \* main: whether request.url was read
    w_out,            \* main: responses returned
    n_pc,             \* clean-up pipeline: position
    n_in,             \* clean-up pipeline: the text given
    n_text            \* clean-up pipeline: the text so far

vars == <<video_id, provider, a_pc, a_calls, transcript_data, language_used,
          a_out, s_pc, s_calls, s_out, request, w_pc, w_video_id, transcript,
          w_calls, w_read_url, w_out, n_pc, n_in, n_text>>

apiVars == <<a_pc, a_calls, transcript_data, language_used, a_out>>
segVars == <<s_pc, s_calls, s_out>>
workerVars == <<w_pc, w_video_id, transcript, w_calls, w_read_url, w_out>>
normVars == <<n_pc, n_in, n_text>>

----------------------------------------------------------------------------
(* Bounds *)

MaxIdLen == 11     \* longest video identifier tried
MaxSegs == 2       \* longest segment list the provider returns
MaxLen == 5        \* longest text given to the clean-up pipeline

(* Program constants *)

MinIdLen == 10

----------------------------------------------------------------------------
(* Characters and text *)

SP == " "
NL == "\n"
TAB == "\t"

Whitespace == {SP, NL, TAB}
Alphabet == {"a", "b", SP, NL, TAB}

RECURSIVE StringsUpTo(_)
StringsUpTo(n) ==
    IF n = 0 THEN {<<>>}
    ELSE LET shorter == StringsUpTo(n - 1)
         IN  shorter \cup {Append(s, c) : s \in {t \in shorter : Len(t) = n - 1},
                                          c \in Alphabet}

Repeat(c, n) == [i \in 1..n |-> c]

Contains(s, c) == \E i \in 1..Len(s) : s[i] = c

StartsWith(s, p) == Len(s) >= Len(p) /\ SubSeq(s, 1, Len(p)) = p

\* str.split(sep) for a one-character separator: the pieces between the
\* separators, empty pieces included.
RECURSIVE Split(_, _)
Split(s, sep) ==
    IF ~Contains(s, sep) THEN <<s>>
    ELSE LET i == CHOOSE k \in 1..Len(s) :
                      s[k] = sep /\ \A j \in 1..(k - 1) : s[j] # sep
         IN  <<SubSeq(s, 1, i - 1)>> \o Split(SubSeq(s, i + 1, Len(s)), sep)

\* str.replace('\n', ' ')
ReplaceNewlines(s) == [i \in 1..Len(s) |-> IF s[i] = NL THEN SP ELSE s[i]]

\* Mutant of ReplaceDoubleSpaces: every run of spaces collapsed to one space.
RECURSIVE CollapseSpaces(_)
CollapseSpaces(s) ==
    IF Len(s) < 2 THEN s
    ELSE IF s[1] = SP /\ s[2] = SP
         THEN CollapseSpaces(Tail(s))
         ELSE <<s[1]>> \o CollapseSpaces(Tail(s))

\* str.replace('  ', ' '): one scan from the left over non-overlapping
\* occurrences; the replacement is not scanned again.
RECURSIVE ReplaceDoubleSpaces(_)
ReplaceDoubleSpaces(s) ==
    IF Len(s) < 2 THEN s
    ELSE IF s[1] = SP /\ s[2] = SP
         THEN <<SP>> \o ReplaceDoubleSpaces(SubSeq(s, 3, Len(s)))
         ELSE <<s[1]>> \o ReplaceDoubleSpaces(Tail(s))

\* str.strip(): leading and trailing whitespace removed.
RECURSIVE LStrip(_)
LStrip(s) == IF s # <<>> /\ s[1] \in Whitespace THEN LStrip(Tail(s)) ELSE s

RECURSIVE RStrip(_)
RStrip(s) ==
    IF s # <<>> /\ s[Len(s)] \in Whitespace
    THEN RStrip(SubSeq(s, 1, Len(s) - 1)) ELSE s

Strip(s) == RStrip(LStrip(s))

\* transcript_text.replace('\n', ' ').replace('  ', ' ').strip()
CleanUp(text) == Strip(ReplaceDoubleSpaces(ReplaceNewlines(text)))

----------------------------------------------------------------------------
(* The external transcript provider and formatter *)

\* The keyword arguments of YouTubeTranscriptApi.get_transcript(video_id, ...)
\* at each call site. The second attempt passes no languages argument.
Tier1Args == [languages |-> <<"en">>, preserve_formatting |-> FALSE]
Tier2Args == [preserve_formatting |-> FALSE]
ApiTier3Args ==
    [languages |-> <<"en", "de", "fr", "es", "it", "pt", "ru", "ja", "ko", "zh">>,
     preserve_formatting |-> FALSE]
WorkerTier3Args ==
    [languages |-> <<"en", "de", "fr", "es", "it">>, preserve_formatting |-> FALSE]
SegmentsArgs ==
    [languages |-> <<"en", "de", "fr", "es", "it">>, preserve_formatting |-> FALSE]

CallArgs == {Tier1Args, Tier2Args, ApiTier3Args, WorkerTier3Args, SegmentsArgs}

\* A timed segment; a malformed one carries no text.
Segment(t) == [text |-> t, start |-> 0, duration |-> 1]
Malformed == [start |-> 0, duration |-> 1]

SegmentText(i) ==
    IF i % 2 = 1 THEN <<"a", NL>> ELSE <<"b", SP, SP, SP, "b">>

SegLists ==
    {[i \in 1..n |-> Segment(SegmentText(i))] : n \in 0..MaxSegs}
        \cup {<<Malformed>>}

\* str(e) of the exceptions the provider raises
ErrorTexts == {"NoTranscriptFound", "TranscriptsDisabled", "VideoUnavailable"}

Returned(segs) == [kind |-> "return", segments |-> segs]
Raised(text) == [kind |-> "raise", error |-> text]
Unasked == [kind |-> "unasked"]

Outcomes == {Returned(segs) : segs \in SegLists} \cup {Raised(e) : e \in ErrorTexts}

\* What a call with these arguments can answer: anything the first time,
\* the same answer afterwards.
Answers(args) == IF provider[args] = Unasked THEN Outcomes ELSE {provider[args]}

\* TextFormatter().format_transcript(segments): the segment texts joined by
\* newlines; a segment without text makes it raise.
FormatRaises(segs) == \E i \in 1..Len(segs) : "text" \notin DOMAIN segs[i]

RECURSIVE JoinLines(_)
JoinLines(segs) ==
    IF segs = <<>> THEN <<>>
    ELSE IF Len(segs) = 1 THEN segs[1].text
    ELSE segs[1].text \o <<NL>> \o JoinLines(Tail(segs))

FormatError == "KeyError: 'text'"

CallRecord(k, args, out) == [tier |-> k, args |-> args, outcome |-> out]

----------------------------------------------------------------------------
(* api.py: GET /transcript/{video_id} *)

HTTPException(code, detail) ==
    [type |-> "HTTPException", status_code |-> code, detail |-> detail]
OtherException(text) == [type |-> "Exception", text |-> text]

\* The response FastAPI sends for an HTTPException that leaves the handler.
ErrorResponse(exc) == [status |-> exc.status_code, detail |-> exc.detail]

\* Mutant of ApiOuterExcept: the catch-all also rewrites HTTPExceptions.
ApiOuterExceptAll500(exc) ==
    HTTPException(500, [msg |-> "Server error: ",
                        error |-> IF exc.type = "HTTPException"
                                  THEN "HTTPException" ELSE exc.text])

\* The two except clauses that close get_transcript: an HTTPException is
\* raised again as it is, any other exception becomes a 500.
ApiOuterExcept(exc) ==
    IF exc.type = "HTTPException" THEN exc
    ELSE HTTPException(500, [msg |-> "Server error: ", error |-> exc.text])

\* Mutant of InvalidVideoId: the length test off by one.
InvalidVideoIdOffByOne(id) == id = <<>> \/ Len(id) <= MinIdLen

\* not video_id or len(video_id) < 10
InvalidVideoId(id) == id = <<>> \/ Len(id) < MinIdLen

ApiRaise(exc) ==
    /\ a_out' = Append(a_out, ErrorResponse(ApiOuterExcept(exc)))
    /\ a_pc' = "done"

ApiValidate ==
    /\ a_pc = "start"
    /\ IF InvalidVideoId(video_id)
       THEN /\ ApiRaise(HTTPException(400, [msg |-> "Invalid video ID"]))
            /\ UNCHANGED <<transcript_data, language_used>>
       ELSE /\ transcript_data' = <<>>       \* None
            /\ language_used' = "None"
            /\ a_pc' = "try1"
            /\ UNCHANGED a_out
    /\ UNCHANGED <<a_calls, video_id, provider, request>>
    /\ UNCHANGED <<segVars, workerVars, normVars>>

\* Mutant of ApiAttempt: the next attempt is made after a return as well.
ApiAttemptNoStop(k, args, label, next) ==
    \E out \in Answers(args) :
        /\ provider' = [provider EXCEPT ![args] = out]
        /\ a_calls' = Append(a_calls, CallRecord(k, args, out))
        /\ IF out.kind = "return"
           THEN /\ transcript_data' = out.segments
                /\ language_used' = label
           ELSE UNCHANGED <<transcript_data, language_used>>
        /\ a_pc' = next
        /\ UNCHANGED <<a_out, video_id, request>>
        /\ UNCHANGED <<segVars, workerVars, normVars>>

\* One provider attempt of get_transcript whose failure falls through to the
\* next attempt.
ApiAttempt(k, args, label, next) ==
    \E out \in Answers(args) :
        /\ provider' = [provider EXCEPT ![args] = out]
        /\ a_calls' = Append(a_calls, CallRecord(k, args, out))
        /\ IF out.kind = "return"
           THEN /\ transcript_data' = out.segments
                /\ language_used' = label
                /\ a_pc' = "finish"
           ELSE /\ a_pc' = next
                /\ UNCHANGED <<transcript_data, language_used>>
        /\ UNCHANGED <<a_out, video_id, request>>
        /\ UNCHANGED <<segVars, workerVars, normVars>>

ApiAttempt1 ==
    /\ a_pc = "try1"
    /\ ApiAttempt(1, Tier1Args, "en (auto-generated)", "try2")

\* Mutant of ApiAttempt2: the label of the first attempt copied.
ApiAttempt2Mislabelled ==
    /\ a_pc = "try2"
    /\ ApiAttempt(2, Tier2Args, "en (auto-generated)", "try3")

ApiAttempt2 ==
    /\ a_pc = "try2"
    /\ ApiAttempt(2, Tier2Args, "auto-generated (any language)", "try3")

NotFoundDetail(id, text) ==
    [msg |-> "No transcript found for video ", video_id |-> id, error |-> text]

\* Mutant of ApiAttempt3: the first attempt's error text is surfaced.
ApiAttempt3FirstError ==
    /\ a_pc = "try3"
    /\ \E out \in Answers(ApiTier3Args) :
        /\ provider' = [provider EXCEPT ![ApiTier3Args] = out]
        /\ a_calls' = Append(a_calls, CallRecord(3, ApiTier3Args, out))
        /\ IF out.kind = "return"
           THEN /\ transcript_data' = out.segments
                /\ language_used' = "manual/auto (any available)"
                /\ a_pc' = "finish"
                /\ UNCHANGED a_out
           ELSE /\ ApiRaise(HTTPException(404,
                        NotFoundDetail(video_id, a_calls[1].outcome.error)))
                /\ UNCHANGED <<transcript_data, language_used>>
    /\ UNCHANGED <<video_id, request>>
    /\ UNCHANGED <<segVars, workerVars, normVars>>

ApiAttempt3 ==
    /\ a_pc = "try3"
    /\ \E out \in Answers(ApiTier3Args) :
        /\ provider' = [provider EXCEPT ![ApiTier3Args] = out]
        /\ a_calls' = Append(a_calls, CallRecord(3, ApiTier3Args, out))
        /\ IF out.kind = "return"
           THEN /\ transcript_data' = out.segments
                /\ language_used' = "manual/auto (any available)"
                /\ a_pc' = "finish"
                /\ UNCHANGED a_out
           ELSE /\ ApiRaise(HTTPException(404, NotFoundDetail(video_id, out.error)))
                /\ UNCHANGED <<transcript_data, language_used>>
    /\ UNCHANGED <<video_id, request>>
    /\ UNCHANGED <<segVars, workerVars, normVars>>

ApiSuccess(text) ==
    [status |-> 200,
     body |-> [success |-> TRUE,
               video_id |-> video_id,
               transcript |-> text,
               language_used |-> language_used,
               segments_count |-> Len(transcript_data),
               transcript_length |-> Len(text),
               service |-> "railway-youtube-transcript-api"]]

\* Mutant of ApiFinish: no emptiness check.
ApiFinishNoEmptyCheck ==
    /\ a_pc = "finish"
    /\ IF FormatRaises(transcript_data)
       THEN ApiRaise(OtherException(FormatError))
       ELSE /\ a_out' = Append(a_out, ApiSuccess(CleanUp(JoinLines(transcript_data))))
            /\ a_pc' = "done"
    /\ UNCHANGED <<a_calls, transcript_data, language_used, video_id, provider, request>>
    /\ UNCHANGED <<segVars, workerVars, normVars>>

\* The emptiness check, the formatting, the clean-up and the return.
ApiFinish ==
    /\ a_pc = "finish"
    /\ IF transcript_data = <<>>
       THEN ApiRaise(HTTPException(404,
                [msg |-> "No transcript data available for video ",
                 video_id |-> video_id]))
       ELSE IF FormatRaises(transcript_data)
       THEN ApiRaise(OtherException(FormatError))
       ELSE /\ a_out' = Append(a_out, ApiSuccess(CleanUp(JoinLines(transcript_data))))
            /\ a_pc' = "done"
    /\ UNCHANGED <<a_calls, transcript_data, language_used, video_id, provider, request>>
    /\ UNCHANGED <<segVars, workerVars, normVars>>

----------------------------------------------------------------------------
(* api.py: GET /transcript/{video_id}/segments *)

SegmentsSuccess(segs) ==
    [status |-> 200,
     body |-> [success |-> TRUE,
               video_id |-> video_id,
               segments |-> segs,
               segments_count |-> Len(segs),
               service |-> "railway-youtube-transcript-api"]]

\* Mutant of SegmentsFailure: a provider failure mapped to 404.
SegmentsFailureNotFound(text) ==
    ErrorResponse(HTTPException(404, [msg |-> "Server error: ", error |-> text]))

SegmentsFailure(text) ==
    ErrorResponse(HTTPException(500, [msg |-> "Server error: ", error |-> text]))

SegmentsResponse(out) ==
    IF out.kind = "return" THEN SegmentsSuccess(out.segments)
    ELSE SegmentsFailure(out.error)

GetTranscriptSegments ==
    /\ s_pc = "start"
    /\ \E out \in Answers(SegmentsArgs) :
        /\ provider' = [provider EXCEPT ![SegmentsArgs] = out]
        /\ s_calls' = Append(s_calls, CallRecord(1, SegmentsArgs, out))
        /\ s_out' = Append(s_out, SegmentsResponse(out))
    /\ s_pc' = "done"
    /\ UNCHANGED <<video_id, request>>
    /\ UNCHANGED <<apiVars, workerVars, normVars>>

----------------------------------------------------------------------------
(* worker-python.py: main(request). Response is the response constructor of *)
(* the hosting runtime; the file uses it without importing it.              *)

CorsPreflightHeaders ==
    ("Access-Control-Allow-Origin" :> "*")
        @@ ("Access-Control-Allow-Methods" :> "GET, POST, OPTIONS")
        @@ ("Access-Control-Allow-Headers" :> "Content-Type")

CorsJsonHeaders ==
    ("Access-Control-Allow-Origin" :> "*") @@ ("Content-Type" :> "application/json")

\* Response(body, status=..., headers=...) and Response.json(...); a
\* Response.json call that passes no status answers 200.
Response(body, status, headers) ==
    [status |-> status, body |-> body, headers |-> headers]

KeyPrefix == <<"v", "i", "d", "e", "o", "_", "i", "d", "=">>

NoVideoId == [found |-> FALSE, value |-> <<>>]

\* The query-string scan: the text between the first and the second '?',
\* cut at '&'; the first parameter that starts with 'video_id=' gives the
\* text between its first and second '='.
ParseVideoId(url) ==
    IF ~Contains(url, "?") THEN NoVideoId
    ELSE LET query_string == Split(url, "?")[2]
             params == Split(query_string, "&")
             hits == {i \in 1..Len(params) : StartsWith(params[i], KeyPrefix)}
         IN  IF hits = {} THEN NoVideoId
             ELSE LET first == CHOOSE i \in hits : \A j \in hits : i <= j
                  IN  [found |-> TRUE, value |-> Split(params[first], "=")[2]]

\* not video_id
MissingVideoId(parsed) == ~parsed.found \/ parsed.value = <<>>

WorkerReturn(resp) ==
    /\ w_out' = Append(w_out, resp)
    /\ w_pc' = "done"

\* Mutant of WorkerOuterExcept: the error response without CORS header.
WorkerOuterExceptNoCors(text) ==
    Response([error |-> <<"Server error: ", text>>, success |-> FALSE],
             500, ("Content-Type" :> "application/json"))

\* except Exception as e, closing main
WorkerOuterExcept(text) ==
    Response([error |-> <<"Server error: ", text>>, success |-> FALSE],
             500, CorsJsonHeaders)

WorkerOptions ==
    /\ w_pc = "start"
    /\ request.method = "OPTIONS"
    /\ WorkerReturn(Response("", 200, CorsPreflightHeaders))
    /\ UNCHANGED <<w_video_id, transcript, w_calls, w_read_url>>
    /\ UNCHANGED <<video_id, provider, request>>
    /\ UNCHANGED <<apiVars, segVars, normVars>>

WorkerParse ==
    /\ w_pc = "start"
    /\ request.method # "OPTIONS"
    /\ w_read_url' = TRUE
    /\ LET parsed == ParseVideoId(request.url)
       IN  IF MissingVideoId(parsed)
           THEN /\ WorkerReturn(Response(
                        [error |-> "Missing video_id parameter", success |-> FALSE],
                        400, CorsJsonHeaders))
                /\ UNCHANGED <<w_video_id, transcript>>
           ELSE /\ w_video_id' = parsed.value
                /\ transcript' = <<>>      \* None
                /\ w_pc' = "try1"
                /\ UNCHANGED w_out
    /\ UNCHANGED <<w_calls, video_id, provider, request>>
    /\ UNCHANGED <<apiVars, segVars, normVars>>

\* One provider attempt of main whose failure falls through to the next.
WorkerAttempt(k, args, next) ==
    \E out \in Answers(args) :
        /\ provider' = [provider EXCEPT ![args] = out]
        /\ w_calls' = Append(w_calls, CallRecord(k, args, out))
        /\ IF out.kind = "return"
           THEN /\ transcript' = out.segments
                /\ w_pc' = "finish"
           ELSE /\ w_pc' = next
                /\ UNCHANGED transcript
        /\ UNCHANGED <<w_out, w_video_id, w_read_url, video_id, request>>
        /\ UNCHANGED <<apiVars, segVars, normVars>>

WorkerAttempt1 ==
    /\ w_pc = "try1"
    /\ WorkerAttempt(1, Tier1Args, "try2")

WorkerAttempt2 ==
    /\ w_pc = "try2"
    /\ WorkerAttempt(2, Tier2Args, "try3")

WorkerNotFound(id, text) ==
    Response([error |-> NotFoundDetail(id, text), success |-> FALSE],
             404, CorsJsonHeaders)

WorkerAttempt3 ==
    /\ w_pc = "try3"
    /\ \E out \in Answers(WorkerTier3Args) :
        /\ provider' = [provider EXCEPT ![WorkerTier3Args] = out]
        /\ w_calls' = Append(w_calls, CallRecord(3, WorkerTier3Args, out))
        /\ IF out.kind = "return"
           THEN /\ transcript' = out.segments
                /\ w_pc' = "finish"
                /\ UNCHANGED w_out
           ELSE /\ WorkerReturn(WorkerNotFound(w_video_id, out.error))
                /\ UNCHANGED transcript
    /\ UNCHANGED <<w_video_id, w_read_url, video_id, request>>
    /\ UNCHANGED <<apiVars, segVars, normVars>>

WorkerSuccess(text) ==
    Response([success |-> TRUE,
              transcript |-> text,
              video_id |-> w_video_id,
              segments_count |-> Len(transcript),
              length |-> Len(text)],
             200, CorsJsonHeaders)

\* Mutant of WorkerFinish: the formatted text returned without clean-up.
WorkerFinishRaw ==
    /\ w_pc = "finish"
    /\ IF FormatRaises(transcript)
       THEN WorkerReturn(WorkerOuterExcept(FormatError))
       ELSE WorkerReturn(WorkerSuccess(JoinLines(transcript)))
    /\ UNCHANGED <<w_video_id, transcript, w_calls, w_read_url>>
    /\ UNCHANGED <<video_id, provider, request>>
    /\ UNCHANGED <<apiVars, segVars, normVars>>

\* The formatting, the clean-up and the return.
WorkerFinish ==
    /\ w_pc = "finish"
    /\ IF FormatRaises(transcript)
       THEN WorkerReturn(WorkerOuterExcept(FormatError))
       ELSE WorkerReturn(WorkerSuccess(CleanUp(JoinLines(transcript))))
    /\ UNCHANGED <<w_video_id, transcript, w_calls, w_read_url>>
    /\ UNCHANGED <<video_id, provider, request>>
    /\ UNCHANGED <<apiVars, segVars, normVars>>

----------------------------------------------------------------------------
(* The clean-up chain of api.py:105 and worker-python.py:81, one call at a  *)
(* time, on any text.                                                       *)

NormReplaceNewlines ==
    /\ n_pc = "newlines"
    /\ n_text' = ReplaceNewlines(n_text)
    /\ n_pc' = "spaces"
    /\ UNCHANGED <<n_in, video_id, provider, request, apiVars, segVars, workerVars>>

NormReplaceDoubleSpaces ==
    /\ n_pc = "spaces"
    /\ n_text' = ReplaceDoubleSpaces(n_text)
    /\ n_pc' = "strip"
    /\ UNCHANGED <<n_in, video_id, provider, request, apiVars, segVars, workerVars>>

NormStrip ==
    /\ n_pc = "strip"
    /\ n_text' = Strip(n_text)
    /\ n_pc' = "done"
    /\ UNCHANGED <<n_in, video_id, provider, request, apiVars, segVars, workerVars>>

----------------------------------------------------------------------------
(* Requests and specifications *)

IdLens == {0, 5, MinIdLen - 1, MinIdLen, MaxIdLen}
VideoIds == {Repeat("x", n) : n \in IdLens}

Path == <<"/">>
OtherParam == <<"x", "=", "1">>

Urls(id) ==
    { Path,
      Path \o <<"?">> \o KeyPrefix \o id,
      Path \o <<"?">> \o OtherParam \o <<"&">> \o KeyPrefix \o id,
      Path \o <<"?">> \o KeyPrefix \o id \o <<"&">> \o OtherParam,
      Path \o <<"?">> \o OtherParam,
      Path \o <<"?">> \o OtherParam \o <<"?">> \o KeyPrefix \o id }

Methods == {"GET", "OPTIONS"}

HandlersAtStart ==
    /\ provider = [args \in CallArgs |-> Unasked]
    /\ a_pc = "start" /\ a_calls = <<>> /\ a_out = <<>>
    /\ transcript_data = <<>> /\ language_used = "None"
    /\ s_pc = "start" /\ s_calls = <<>> /\ s_out = <<>>
    /\ w_pc = "start" /\ w_calls = <<>> /\ w_out = <<>>
    /\ w_video_id = <<>> /\ transcript = <<>> /\ w_read_url = FALSE

Init ==
    /\ video_id \in VideoIds
    /\ request \in [method : Methods, url : Urls(video_id)]
    /\ HandlersAtStart
    /\ n_pc = "idle" /\ n_in = <<>> /\ n_text = <<>>

Next ==
    \/ ApiValidate
    \/ ApiAttempt1
    \/ ApiAttempt2
    \/ ApiAttempt3
    \/ ApiFinish
    \/ GetTranscriptSegments
    \/ WorkerOptions
    \/ WorkerParse
    \/ WorkerAttempt1
    \/ WorkerAttempt2
    \/ WorkerAttempt3
    \/ WorkerFinish

Spec == Init /\ [][Next]_vars

InitNorm ==
    /\ video_id = Repeat("x", MinIdLen)
    /\ request = [method |-> "GET", url |-> Path]
    /\ HandlersAtStart
    /\ n_in \in StringsUpTo(MaxLen)
    /\ n_text = n_in
    /\ n_pc = "newlines"

NextNorm ==
    \/ NormReplaceNewlines
    \/ NormReplaceDoubleSpaces
    \/ NormStrip

SpecNorm == InitNorm /\ [][NextNorm]_vars

----------------------------------------------------------------------------
(* Properties *)

Last(seq) == seq[Len(seq)]
Tiers(calls) == [i \in 1..Len(calls) |-> calls[i].tier]
AllRaised(calls) == \A i \in 1..Len(calls) : calls[i].outcome.kind = "raise"
ApiDone == a_pc = "done"
WorkerDone == w_pc = "done"
SegDone == s_pc = "done"

\* The attempts of one request, in the order made: the i-th is tier i with
\* that tier's arguments, every attempt but the last raised, at most three.
InStrictOrder(calls, tier3Args) ==
    /\ Len(calls) <= 3
    /\ \A i \in 1..Len(calls) :
        /\ calls[i].tier = i
        /\ calls[i].args = <<Tier1Args, Tier2Args, tier3Args>>[i]
        /\ i < Len(calls) => calls[i].outcome.kind = "raise"

\* C1: in get_transcript and in main the provider attempts are made in the
\* order tier 1, tier 2, tier 3; tier k+1 is attempted only after tier k was
\* attempted and raised, nothing is attempted after an attempt returned, and
\* a request makes at most three provider calls.
C1_StrictOrder ==
    /\ InStrictOrder(a_calls, ApiTier3Args)
    /\ InStrictOrder(w_calls, WorkerTier3Args)
    /\ a_pc = "try1" => a_calls = <<>>
    /\ a_pc = "try2" => Len(a_calls) = 1 /\ AllRaised(a_calls)
    /\ a_pc = "try3" => Len(a_calls) = 2 /\ AllRaised(a_calls)
    /\ w_pc = "try1" => w_calls = <<>>
    /\ w_pc = "try2" => Len(w_calls) = 1 /\ AllRaised(w_calls)
    /\ w_pc = "try3" => Len(w_calls) = 2 /\ AllRaised(w_calls)

\* Both handlers reached their third attempt: the full endpoint after two
\* raises got an answer from tier 3, the alternate handler saw three raises.
C1_Witness ==
    /\ Len(a_calls) = 3 /\ a_calls[3].outcome.kind = "return"
    /\ Len(w_calls) = 3 /\ AllRaised(w_calls)

\* C2: on a 200 response of GET /transcript/{video_id}, language_used is
\* the label of the tier whose attempt returned (tier 1, 2 or 3, the earlier
\* tiers having raised), it is never null, and the transcript is the cleaned
\* text of that attempt's segments.
C2_LanguageUsed ==
    (ApiDone /\ a_out[1].status = 200) =>
        LET body == a_out[1].body
            last == Last(a_calls)
        IN  /\ last.outcome.kind = "return"
            /\ body.language_used # "None"
            /\ body.language_used = "en (auto-generated)" <=> last.tier = 1
            /\ body.language_used = "auto-generated (any language)" <=> last.tier = 2
            /\ body.language_used = "manual/auto (any available)" <=> last.tier = 3
            /\ \A i \in 1..(Len(a_calls) - 1) : a_calls[i].outcome.kind = "raise"
            /\ body.transcript = CleanUp(JoinLines(last.outcome.segments))

\* A 200 response whose transcript came from tier 2 after tier 1 raised.
C2_Witness ==
    /\ ApiDone /\ a_out[1].status = 200
    /\ Len(a_calls) = 2
    /\ a_out[1].body.language_used = "auto-generated (any language)"

\* C3: when all three attempts raise, get_transcript and main answer 404
\* with the error text of the third attempt (not those of the first two),
\* and the response carries no transcript and no segments.
C3_LastErrorSurfaced ==
    /\ (Len(a_calls) = 3 /\ AllRaised(a_calls)) =>
          /\ ApiDone /\ Len(a_out) = 1
          /\ a_out[1].status = 404
          /\ a_out[1].detail = NotFoundDetail(video_id, a_calls[3].outcome.error)
          /\ \A i \in 1..2 :
                a_calls[i].outcome.error # a_calls[3].outcome.error
                    => a_out[1].detail.error # a_calls[i].outcome.error
          /\ DOMAIN a_out[1] = {"status", "detail"}
    /\ (Len(w_calls) = 3 /\ AllRaised(w_calls)) =>
          /\ WorkerDone /\ Len(w_out) = 1
          /\ w_out[1].status = 404
          /\ w_out[1].body.error = NotFoundDetail(w_video_id, w_calls[3].outcome.error)
          /\ \A i \in 1..2 :
                w_calls[i].outcome.error # w_calls[3].outcome.error
                    => w_out[1].body.error.error # w_calls[i].outcome.error
          /\ DOMAIN w_out[1].body = {"error", "success"}
          /\ w_out[1].body.success = FALSE

\* All three attempts raised in both handlers, with three different texts.
C3_Witness ==
    /\ Len(a_calls) = 3 /\ AllRaised(a_calls)
    /\ Len(w_calls) = 3 /\ AllRaised(w_calls)
    /\ a_calls[1].outcome.error # a_calls[3].outcome.error
    /\ a_calls[2].outcome.error # a_calls[3].outcome.error
    /\ a_calls[1].outcome.error # a_calls[2].outcome.error
    /\ w_calls[3].outcome.error # w_calls[1].outcome.error

\* C4: GET /transcript/{video_id} with an identifier that is empty or
\* shorter than 10 characters is answered 400 with no provider call made, and
\* an identifier of 10 or more characters is never answered 400.
C4_IdValidation ==
    /\ Len(video_id) < 10 =>
          /\ a_calls = <<>>
          /\ a_pc \in {"start", "done"}
          /\ ApiDone => (Len(a_out) = 1 /\ a_out[1].status = 400)
    /\ Len(video_id) >= 10 =>
          \A i \in 1..Len(a_out) : a_out[i].status # 400

\* A 9-character identifier was answered.
C4_Witness == ApiDone /\ Len(video_id) = 9 /\ a_out[1].status = 400

\* A text as its non-space characters and its maximal runs of spaces, in
\* order: [ch |-> c] for a character, [run |-> n] for n spaces in a row.
RECURSIVE ShapeFrom(_, _)
ShapeFrom(s, run) ==
    LET flush == IF run > 0 THEN <<[run |-> run]>> ELSE <<>>
    IN  IF s = <<>> THEN flush
        ELSE IF s[1] = SP THEN ShapeFrom(Tail(s), run + 1)
        ELSE flush \o <<[ch |-> s[1]]>> \o ShapeFrom(Tail(s), 0)

Shape(s) == ShapeFrom(s, 0)

CeilHalf(n) == (n + 1) \div 2

HalvedRuns(shape) ==
    [i \in 1..Len(shape) |->
        IF "run" \in DOMAIN shape[i] THEN [run |-> CeilHalf(shape[i].run)]
        ELSE shape[i]]

TripleSpaced == <<"a", SP, SP, SP, "b">>

\* C5: the clean-up replaces every newline by one space, then replaces
\* non-overlapping pairs of spaces from the left by one space, then trims.
\* The result has no newline and no leading or trailing whitespace; every
\* interior run of n spaces (counted after the newlines became spaces) is a
\* run of ceil(n/2) spaces, the other characters are kept in order; "a   b"
\* gives "a  b", not "a b", and cleaning that again changes it.
C5_CleanUp ==
    /\ n_pc = "spaces" =>
          /\ Len(n_text) = Len(n_in)
          /\ \A i \in 1..Len(n_in) :
                n_text[i] = (IF n_in[i] = NL THEN SP ELSE n_in[i])
    /\ n_pc = "done" =>
          /\ n_text = CleanUp(n_in)
          /\ \A i \in 1..Len(n_text) : n_text[i] # NL
          /\ n_text # <<>> =>
                (n_text[1] \notin Whitespace /\ Last(n_text) \notin Whitespace)
          /\ Shape(n_text) = HalvedRuns(Shape(Strip(ReplaceNewlines(n_in))))
          /\ n_in = TripleSpaced =>
                /\ n_text = <<"a", SP, SP, "b">>
                /\ n_text # <<"a", SP, "b">>
                /\ CleanUp(n_text) = <<"a", SP, "b">>
                /\ CleanUp(n_text) # n_text

\* "a   b" went through the chain and kept two spaces.
C5_Witness ==
    n_pc = "done" /\ n_in = TripleSpaced /\ n_text = <<"a", SP, SP, "b">>

C7_WorkerResponses ==
    /\ Len(w_out) <= 1
    /\ ~WorkerDone => w_out = <<>>
    /\ WorkerDone =>
          LET r == w_out[1]
              parsed == ParseVideoId(request.url)
          IN  /\ Len(w_out) = 1
              /\ "Access-Control-Allow-Origin" \in DOMAIN r.headers
              /\ r.headers["Access-Control-Allow-Origin"] = "*"
              /\ r.status \in {200, 400, 404, 500}
              /\ request.method = "OPTIONS" =>
                    /\ r.status = 200 /\ r.body = ""
                    /\ ~w_read_url /\ w_calls = <<>>
              /\ (request.method # "OPTIONS" /\ (~parsed.found \/ parsed.value = <<>>)) =>
                    (r.status = 400 /\ w_calls = <<>>)
              /\ (request.method # "OPTIONS" /\ parsed.found /\ parsed.value # <<>>) =>
                    /\ w_calls # <<>>
                    /\ r.status = 404 <=> AllRaised(w_calls)
                    /\ r.status = 500 <=>
                          (Last(w_calls).outcome.kind = "return"
                              /\ Last(w_calls).outcome.segments = <<Malformed>>)
                    /\ r.status = 200 <=>
                          (Last(w_calls).outcome.kind = "return"
                              /\ Last(w_calls).outcome.segments # <<Malformed>>)
                    /\ r.status # 400

\* The formatter raised after tier 2 returned, and main answered 500.
C7_Witness ==
    /\ WorkerDone /\ Len(w_calls) = 2
    /\ w_out[1].status = 500
    /\ w_out[1].headers["Access-Control-Allow-Origin"] = "*"

\* C8: when an attempt of get_transcript returns an empty segment list the
\* request is answered 404, no later tier is attempted, and every 200
\* response has segments_count >= 1.
C8_EmptySuccess ==
    /\ \A i \in 1..Len(a_calls) :
          a_calls[i].outcome = Returned(<<>>) => i = Len(a_calls)
    /\ (ApiDone /\ a_calls # <<>> /\ Last(a_calls).outcome = Returned(<<>>)) =>
          (Len(a_out) = 1 /\ a_out[1].status = 404)
    /\ \A i \in 1..Len(a_out) :
          a_out[i].status = 200 => a_out[i].body.segments_count >= 1

\* Tier 1 returned no segments and the request was answered.
C8_Witness ==
    /\ ApiDone /\ Len(a_calls) = 1
    /\ a_calls[1].outcome = Returned(<<>>)
    /\ a_out[1].status = 404

\* Both handlers have answered a request for the same identifier of 10 or
\* more characters.
SideBySide ==
    /\ ApiDone /\ WorkerDone
    /\ Len(video_id) >= 10
    /\ request.method # "OPTIONS"
    /\ w_video_id = video_id

\* Each tier gave both handlers the same outcome.
TierOutcomesAgree ==
    \A i \in 1..Len(a_calls) :
        i <= Len(w_calls) => a_calls[i].outcome = w_calls[i].outcome

SameAnswer ==
    /\ a_out[1].status = w_out[1].status
    /\ a_out[1].status = 200 =>
          a_out[1].body.transcript = w_out[1].body.transcript

\* C9 as stated: for every identifier of length >= 10 and every outcome per
\* tier (a segment list, possibly empty, or a raise), get_transcript and main
\* make the same sequence of tier attempts, stop at the same tier and answer
\* with the same status and the same normalized text.
C9_Original ==
    (SideBySide /\ TierOutcomesAgree) =>
        (Tiers(a_calls) = Tiers(w_calls) /\ SameAnswer)

\* C9 (amended): for every identifier of length >= 10, get_transcript and
\* main make the same sequence of tier attempts and stop at the same tier;
\* when each tier gives both the same outcome, they answer with the same
\* status and, on 200, the same normalized text, unless the attempt that
\* returned gave an empty segment list: then get_transcript answers 404 and
\* main answers 200 with an empty transcript and segments_count 0.
C9_SameStrategy ==
    SideBySide =>
        /\ Tiers(a_calls) = Tiers(w_calls)
        /\ TierOutcomesAgree =>
              IF Last(a_calls).outcome = Returned(<<>>)
              THEN /\ a_out[1].status = 404
                   /\ w_out[1].status = 200
                   /\ w_out[1].body.transcript = <<>>
                   /\ w_out[1].body.segments_count = 0
              ELSE SameAnswer

\* Side by side, tier 3 gave both handlers the same two segments after two
\* raises, and both answered 200.
C9_Witness ==
    /\ SideBySide /\ TierOutcomesAgree
    /\ Len(a_calls) = 3 /\ Len(w_calls) = 3
    /\ Last(a_calls).outcome.kind = "return"
    /\ Len(Last(a_calls).outcome.segments) = 2
    /\ a_out[1].status = 200 /\ w_out[1].status = 200

\* C10: a request to GET /transcript/{video_id} that completes gets exactly
\* one response, with status 200, 400, 404 or 500. The handler's own 400
\* (invalid identifier) and 404 (three raises, or an empty list) reach the
\* client as they are; 500 is answered only when the formatter raised after
\* an attempt returned; a raise of a provider attempt leads at most to 404.
C10_ApiStatuses ==
    /\ Len(a_out) <= 1
    /\ ~ApiDone => a_out = <<>>
    /\ ApiDone =>
          LET r == a_out[1]
          IN  /\ Len(a_out) = 1
              /\ r.status \in {200, 400, 404, 500}
              /\ r.status = 400 <=> Len(video_id) < 10
              /\ r.status = 400 => r.detail.msg = "Invalid video ID"
              /\ r.status = 404 <=>
                    (a_calls # <<>> /\
                        (AllRaised(a_calls) \/ Last(a_calls).outcome = Returned(<<>>)))
              /\ r.status = 500 <=>
                    (a_calls # <<>> /\ Last(a_calls).outcome = Returned(<<Malformed>>))
              /\ r.status = 500 => r.detail.error = FormatError
              /\ (a_calls # <<>> /\ Last(a_calls).outcome.kind = "raise") =>
                    r.status = 404

\* After tier 1 raised, tier 2 returned a list the formatter cannot format:
\* the answer is 500.
C10_Witness ==
    /\ ApiDone /\ Len(a_calls) = 2
    /\ a_calls[1].outcome.kind = "raise"
    /\ a_out[1].status = 500

====
